---- MODULE Spec2Model ----
(***************************************************************************)
(* NumpyFuncCache: a file-backed memoization layer for functions that      *)
(* return NumPy arrays (NumpyFuncCache/numpy_func_cache.py).               *)
(*                                                                         *)
(* The model has the cache directory (the root, its entry files, a         *)
(* pre-existing subdirectory), one threading.Lock per store instance, and  *)
(* the threads that run _compute_func_cached and clear_cache one           *)
(* filesystem call at a time.  np.save is not atomic: it opens the file    *)
(* (creating or truncating it) and then writes it, so an entry exists      *)
(* before it is complete.                                                  *)
(***************************************************************************)
EXTENDS Integers, Sequences, FiniteSets, TLC

\* ------------------------------------------------------------------ bounds
NumThreads == 2
MaxOps == 3

Threads == 1..NumThreads
Stores == Threads
NoThread == 0

\* ------------------------------------------------------------------ values
\* A NumPy value: a shape and the row-major data.  A Python int is the value
\* of shape <<>>.
Scalar(x) == [shape |-> <<>>, data |-> <<x>>]
Array1(xs) == [shape |-> <<Len(xs)>>, data |-> xs]
NoVal == [shape |-> <<>>, data |-> <<>>]

IsScalar(v) == v.shape = <<>>

\* ------------------------------------------------------------------ repr
RECURSIVE Digits(_)
Digits(n) == IF n < 10 THEN 1 ELSE 1 + Digits(n \div 10)

\* len(str(x)) of an int
StrWidth(x) == IF x < 0 THEN 1 + Digits(-x) ELSE Digits(x)

RECURSIVE Spaces(_)
Spaces(n) == IF n <= 0 THEN "" ELSE " " \o Spaces(n - 1)

RECURSIVE MaxWidth(_)
MaxWidth(xs) ==
    IF xs = <<>> THEN 0
    ELSE LET w == StrWidth(Head(xs))
             r == MaxWidth(Tail(xs))
         IN IF w > r THEN w ELSE r

\* str.join over a sequence of strings
RECURSIVE Join(_, _)
Join(sep, ss) ==
    IF ss = <<>> THEN ""
    ELSE IF Len(ss) = 1 THEN ss[1]
    ELSE ss[1] \o sep \o Join(sep, Tail(ss))

\* numpy's print options, as they are when repr is called: an array of more
\* than PrintThreshold elements is summarised to EdgeItems at each end
PrintThreshold == 1000
EdgeItems == 3

\* the elements numpy formats: all of them, or the leading and trailing ones
Shown(xs) ==
    IF Len(xs) > PrintThreshold
    THEN SubSeq(xs, 1, EdgeItems) \o SubSeq(xs, Len(xs) - EdgeItems + 1, Len(xs))
    ELSE xs

\* repr of a 1-d integer ndarray: the elements right-aligned to the widest
\* one shown, with ", ..., " in place of the elements a summary leaves out
\* (the line breaks numpy puts into a repr wider than 75 columns are left out)
ReprArray(xs) ==
    LET sh == Shown(xs)
        w == MaxWidth(sh)
        el(i) == Spaces(w - StrWidth(sh[i])) \o ToString(sh[i])
        els(a, b) == Join(", ", [i \in 1..(b - a + 1) |-> el(a + i - 1)])
    IN IF Len(xs) > PrintThreshold
       THEN "array([" \o els(1, EdgeItems) \o ", ..., "
                     \o els(EdgeItems + 1, 2 * EdgeItems) \o "])"
       ELSE "array([" \o els(1, Len(sh)) \o "])"

\* repr(value)
Repr(v) == IF IsScalar(v) THEN ToString(v.data[1]) ELSE ReprArray(v.data)

\* ------------------------------------------------------- wrapped functions
\* The functions handed to create_cached_func: a name (func.__name__), the
\* parameter names with their defaults, and a body.
SampleFunc == [name |-> "sample_func", params |-> <<"x">>, body |-> "powers"]
PairFunc == [name |-> "pair_func", params |-> <<"a", "b">>, body |-> "pair"]
RecipFunc == [name |-> "recip_func", params |-> <<"x">>, body |-> "recip"]
CountFunc == [name |-> "count_func", params |-> <<"x">>, body |-> "count"]

\* another function that is also named sample_func
OtherSampleFunc == [name |-> "sample_func", params |-> <<"x">>, body |-> "count"]

\* functions that use the store that caches them: one returns what the cached
\* sample_func of that store returns, one clears the store and then computes as
\* sample_func does
NestedFunc == [name |-> "nested_func", params |-> <<"x">>, body |-> "recall"]
ClearingFunc == [name |-> "clearing_func", params |-> <<"x">>, body |-> "reclear"]
NoFunc == [name |-> "", params |-> <<>>, body |-> ""]

Default(f, p) == Scalar(42)

MkCall(f, a, kw) == [func |-> f, args |-> a, kwargs |-> kw]
NoCall == MkCall(NoFunc, <<>>, <<>>)

\* the value Python binds to the i-th parameter of c.func
RECURSIVE Lookup(_, _, _)
Lookup(kw, p, dflt) ==
    IF kw = <<>> THEN dflt
    ELSE IF Head(kw)[1] = p THEN Head(kw)[2]
    ELSE Lookup(Tail(kw), p, dflt)

Bound(c, i) ==
    IF i <= Len(c.args) THEN c.args[i]
    ELSE Lookup(c.kwargs, c.func.params[i], Default(c.func, c.func.params[i]))

Pow(xs, k) == [i \in 1..Len(xs) |-> IF k = 1 THEN xs[i] ELSE IF k = 2 THEN xs[i] * xs[i] ELSE xs[i] * xs[i] * xs[i]]

\* np.array([x, x**2, x**3])
Powers(v) ==
    [shape |-> <<3>> \o v.shape,
     data |-> Pow(v.data, 1) \o Pow(v.data, 2) \o Pow(v.data, 3)]

\* np.count_nonzero(x)
CountNonzero(xs) == Cardinality({i \in 1..Len(xs) : xs[i] # 0})

\* whether func(*args, **kwargs) raises, and what
Raises(c) == c.func.body = "recip" /\ Bound(c, 1).data[1] = 0
RaisedError(c) == "ZeroDivisionError"

\* func(*args, **kwargs), where it returns
Eval(c) ==
    IF c.func.body \in {"powers", "recall", "reclear"} THEN Powers(Bound(c, 1))
    ELSE IF c.func.body = "count" THEN Array1(<<CountNonzero(Bound(c, 1).data)>>)
    ELSE IF c.func.body = "pair" THEN Array1(<<Bound(c, 1).data[1], 10 * Bound(c, 2).data[1]>>)
    ELSE IF Raises(c) THEN NoVal
    ELSE Array1(<<12 \div Bound(c, 1).data[1]>>)

\* ---------------------------------------------------------- key derivation
ArgsStr(c) == Join(",", [i \in 1..Len(c.args) |-> Repr(c.args[i])])

\* the keyword arguments rendered in the order of the function's parameters
KwargsStrByParams(c) ==
    LET given == SelectSeq(c.func.params, LAMBDA p : \E i \in 1..Len(c.kwargs) : c.kwargs[i][1] = p)
    IN Join(",", [i \in 1..Len(given) |-> given[i] \o "=" \o Repr(Lookup(c.kwargs, given[i], NoVal))])

KwargsStr(c) ==
    Join(",", [i \in 1..Len(c.kwargs) |-> c.kwargs[i][1] \o "=" \o Repr(c.kwargs[i][2])])

\* the input string with the function told apart by more than its name
InputStrQualified(c) ==
    c.func.body \o "." \o c.func.name \o "(" \o ArgsStr(c) \o "," \o KwargsStr(c) \o ")"

InputStr(c) == c.func.name \o "(" \o ArgsStr(c) \o "," \o KwargsStr(c) \o ")"

\* hashlib.md5(s).hexdigest(), taken to be injective: the digest names its input
Md5Hex(s) == "md5<" \o s \o ">"

\* the entry's file name under cache_path
FileCachePath(c) == Md5Hex(InputStr(c)) \o ".npy"

\* ------------------------------------------------------------------ inputs
Sample2 == MkCall(SampleFunc, <<Scalar(2)>>, <<>>)
Sample3 == MkCall(SampleFunc, <<Scalar(3)>>, <<>>)
SampleArr == MkCall(SampleFunc, <<Array1(<<1, 2, 3>>)>>, <<>>)
SampleDflt == MkCall(SampleFunc, <<>>, <<>>)
PairAB == MkCall(PairFunc, <<>>, << <<"a", Scalar(1)>>, <<"b", Scalar(2)>> >>)
PairBA == MkCall(PairFunc, <<>>, << <<"b", Scalar(2)>>, <<"a", Scalar(1)>> >>)
RecipZero == MkCall(RecipFunc, <<Scalar(0)>>, <<>>)


\* two arrays of PrintThreshold + 1 elements that differ in one element
BigZeros == Array1([i \in 1..(PrintThreshold + 1) |-> 0])
BigOne == Array1([i \in 1..(PrintThreshold + 1) |-> IF i = EdgeItems + 1 THEN 1 ELSE 0])
CountZeros == MkCall(CountFunc, <<BigZeros>>, <<>>)
CountOne == MkCall(CountFunc, <<BigOne>>, <<>>)

OtherSample2 == MkCall(OtherSampleFunc, <<Scalar(2)>>, <<>>)
Nested2 == MkCall(NestedFunc, <<Scalar(2)>>, <<>>)
Clearing2 == MkCall(ClearingFunc, <<Scalar(2)>>, <<>>)

Calls ==
    {Sample2, Sample3, SampleArr, SampleDflt, PairAB, PairBA, RecipZero,
     CountZeros, CountOne, OtherSample2, Nested2, Clearing2}

\* the calls the threads of one run choose from
Workloads ==
    { {Sample2, Sample3}, {Sample2, SampleArr}, {SampleDflt}, {PairAB, PairBA},
      {Sample2, RecipZero} }

\* ------------------------------------------------------------------- state
VARIABLES
    workload,   \* the calls the threads of this run make
    storeOf,    \* thread -> the store instance (one per process) it calls
    root,       \* whether the directory cache_path exists
    subdirs,    \* subdirectories of the root (the core creates none)
    files,      \* file name -> entry, the regular files under the root
    lock,       \* store -> the thread holding self.lock, or NoThread
    pc,         \* thread -> where it stands in its operation
    op,         \* thread -> the operation it runs
    listing,    \* thread -> the names of os.listdir still to visit
    ret,        \* thread -> what its last operation returned or raised
    calls,      \* call -> how often the wrapped function ran for it
    printed,    \* the file names clear_cache reported as not deleted
    ops,        \* operations started so far
    faulted,    \* a filesystem call has failed for an outside reason
    cleared,    \* a clear_cache has been started
    outer       \* thread -> the call whose wrapped function runs its operation

vars == <<workload, storeOf, root, subdirs, files, lock, pc, op, listing, ret,
          calls, printed, ops, faulted, cleared, outer>>

\* ---------------------------------------------------------- the filesystem
EmptyDir == [n \in {} |-> 0]

\* an entry: the array it is to hold, whether it is wholly written, the
\* threads with the file open for writing, the one that opened it last, and
\* whether writers of different data overlapped
Entry(v, full, writers, last, raced) ==
    [data |-> v, full |-> full, writers |-> writers, last |-> last, raced |-> raced]

\* the existence check that never finds the entry
PathExistsNever(n) == FALSE

\* os.path.exists(file_cache_path)
PathExists(n) == root /\ n \in DOMAIN files

\* os.path.isfile(file_path)
IsFile(n) == root /\ n \in DOMAIN files

\* a file np.load can decode
Decodable(n) == n \in DOMAIN files /\ files[n].full

Put(n, e) == (n :> e) @@ files
Unlink(n) == [m \in DOMAIN files \ {n} |-> files[m]]

\* open(file, "wb") by thread t, about to write v: creates the file, or
\* truncates the one that is there
Opened(n, t, v) ==
    IF n \in DOMAIN files
    THEN LET e == files[n]
         IN Put(n, Entry(v, FALSE, e.writers \cup {t}, t,
                         e.writers # {} /\ (e.raced \/ e.data # v)))
    ELSE Put(n, Entry(v, FALSE, {t}, t, FALSE))

\* the results
NoRet == [kind |-> "none", val |-> NoVal, err |-> "", cause |-> ""]
RetValue(v) == [kind |-> "value", val |-> v, err |-> "", cause |-> ""]
RetNone == [kind |-> "ok", val |-> NoVal, err |-> "", cause |-> ""]

\* raise RuntimeError(f"Error during cache operation: {e}")
CacheOpError(cause) == [kind |-> "error", val |-> NoVal, err |-> "RuntimeError", cause |-> cause]

\* raise RuntimeError(f"Error during cache clearing: {e}")
ClearError(cause) == [kind |-> "error", val |-> NoVal, err |-> "RuntimeError", cause |-> cause]

NoOp == [kind |-> "none", c |-> NoCall, remove_dir |-> FALSE]
CallOp(c) == [kind |-> "call", c |-> c, remove_dir |-> FALSE]
ClearOp(rd) == [kind |-> "clear", c |-> NoCall, remove_dir |-> rd]

\* whether the body of c.func calls into the store, and the operation it runs
Reenters(c) == c.func.body \in {"recall", "reclear"}
InnerOp(c) ==
    IF c.func.body = "recall" THEN CallOp(MkCall(SampleFunc, c.args, c.kwargs))
    ELSE ClearOp(FALSE)

Path(t) == FileCachePath(op[t].c)
Holds(t) == lock[storeOf[t]] = t

\* -------------------------------------------------------------------- Init
InitStore ==
    /\ root = TRUE
    /\ subdirs \in {{}, {"sub"}}
    /\ files = EmptyDir
    /\ lock = [s \in Stores |-> NoThread]
    /\ pc = [t \in Threads |-> "idle"]
    /\ op = [t \in Threads |-> NoOp]
    /\ listing = [t \in Threads |-> {}]
    /\ ret = [t \in Threads |-> NoRet]
    /\ calls = [c \in workload |-> 0]
    /\ printed = {}
    /\ ops = 0
    /\ faulted = FALSE
    /\ cleared = FALSE
    /\ outer = [t \in Threads |-> NoOp]

InitCommon == workload \in Workloads /\ InitStore

\* one store instance, called by every thread
Init == InitCommon /\ storeOf = [t \in Threads |-> 1]

\* one process per thread, each with its own instance on the same cache_path
InitMP == InitCommon /\ storeOf = [t \in Threads |-> t]

\* ------------------------------------------------- _compute_func_cached
\* cached_func(*args, **kwargs): the key is derived, then the lock is awaited
StartCall(t, c) ==
    /\ pc[t] = "idle"
    /\ ops < MaxOps
    /\ ops' = ops + 1
    /\ op' = [op EXCEPT ![t] = CallOp(c)]
    /\ ret' = [ret EXCEPT ![t] = NoRet]
    /\ pc' = [pc EXCEPT ![t] = "acquire"]
    /\ UNCHANGED <<outer, workload, storeOf, root, subdirs, files, lock, listing, calls,
                   printed, faulted, cleared>>

\* entering the block without waiting for the lock
AcquireNoWait(t) ==
    /\ pc[t] = "acquire"
    /\ lock' = [lock EXCEPT ![storeOf[t]] = t]
    /\ pc' = [pc EXCEPT ![t] = IF op[t].kind = "call" THEN "check" ELSE "listdir"]
    /\ UNCHANGED <<outer, workload, storeOf, root, subdirs, files, op, listing, ret, calls,
                   printed, ops, faulted, cleared>>

\* a lock that its holder may take again
AcquireReentrant(t) ==
    /\ pc[t] = "acquire"
    /\ lock[storeOf[t]] \in {NoThread, t}
    /\ lock' = [lock EXCEPT ![storeOf[t]] = t]
    /\ pc' = [pc EXCEPT ![t] = IF op[t].kind = "call" THEN "check" ELSE "listdir"]
    /\ UNCHANGED <<outer, workload, storeOf, root, subdirs, files, op, listing, ret, calls,
                   printed, ops, faulted, cleared>>

\* with self.lock:
Acquire(t) ==
    /\ pc[t] = "acquire"
    /\ lock[storeOf[t]] = NoThread
    /\ lock' = [lock EXCEPT ![storeOf[t]] = t]
    /\ pc' = [pc EXCEPT ![t] = IF op[t].kind = "call" THEN "check" ELSE "listdir"]
    /\ UNCHANGED <<outer, workload, storeOf, root, subdirs, files, op, listing, ret, calls,
                   printed, ops, faulted, cleared>>

\* if os.path.exists(file_cache_path):
Check(t) ==
    /\ pc[t] = "check"
    /\ pc' = [pc EXCEPT ![t] = IF PathExists(Path(t)) THEN "load" ELSE "compute"]
    /\ UNCHANGED <<outer, workload, storeOf, root, subdirs, files, lock, op, listing, ret,
                   calls, printed, ops, faulted, cleared>>

\* the load that takes a file it cannot decode for a miss
LoadFallsBack(t) ==
    /\ pc[t] = "load"
    /\ IF PathExists(Path(t)) /\ Decodable(Path(t))
       THEN /\ ret' = [ret EXCEPT ![t] = RetValue(files[Path(t)].data)]
            /\ pc' = [pc EXCEPT ![t] = "exit"]
       ELSE /\ ret' = ret
            /\ pc' = [pc EXCEPT ![t] = "compute"]
    /\ UNCHANGED <<outer, workload, storeOf, root, subdirs, files, lock, op, listing, calls,
                   printed, ops, faulted, cleared>>

\* result = np.load(file_cache_path)
Load(t) ==
    /\ pc[t] = "load"
    /\ ret' = [ret EXCEPT ![t] =
                  IF ~PathExists(Path(t)) THEN CacheOpError("FileNotFoundError")
                  ELSE IF ~Decodable(Path(t)) THEN CacheOpError("ValueError")
                  ELSE RetValue(files[Path(t)].data)]
    /\ pc' = [pc EXCEPT ![t] = "exit"]
    /\ UNCHANGED <<outer, workload, storeOf, root, subdirs, files, lock, op, listing, calls,
                   printed, ops, faulted, cleared>>

\* the miss with the file opened before the function is called
ComputeLeavesFile(t) ==
    /\ pc[t] = "compute"
    /\ calls' = [calls EXCEPT ![op[t].c] = @ + 1]
    /\ IF Raises(op[t].c)
       THEN /\ ret' = [ret EXCEPT ![t] = CacheOpError(RaisedError(op[t].c))]
            /\ files' = Put(Path(t), Entry(NoVal, FALSE, {}, t, FALSE))
            /\ pc' = [pc EXCEPT ![t] = "exit"]
       ELSE /\ ret' = ret
            /\ files' = files
            /\ pc' = [pc EXCEPT ![t] = "save"]
    /\ UNCHANGED <<outer, workload, storeOf, root, subdirs, lock, op, listing,
                   printed, ops, faulted, cleared>>

\* result = func(*args, **kwargs)
\* A body that calls into the store starts that operation on the same thread,
\* inside the outer call's with block: it goes to await self.lock.
Compute(t) ==
    /\ pc[t] = "compute"
    /\ calls' = [calls EXCEPT ![op[t].c] = @ + 1]
    /\ IF Reenters(op[t].c)
       THEN /\ outer' = [outer EXCEPT ![t] = op[t]]
            /\ op' = [op EXCEPT ![t] = InnerOp(op[t].c)]
            /\ cleared' = (cleared \/ InnerOp(op[t].c).kind = "clear")
            /\ ret' = ret
            /\ pc' = [pc EXCEPT ![t] = "acquire"]
       ELSE /\ UNCHANGED <<outer, op, cleared>>
            /\ IF Raises(op[t].c)
               THEN /\ ret' = [ret EXCEPT ![t] = CacheOpError(RaisedError(op[t].c))]
                    /\ pc' = [pc EXCEPT ![t] = "exit"]
               ELSE /\ ret' = ret
                    /\ pc' = [pc EXCEPT ![t] = "save"]
    /\ UNCHANGED <<workload, storeOf, root, subdirs, files, lock, listing,
                   printed, ops, faulted>>

\* a save that creates the missing directory before it opens the file
SaveOpenMakedirs(t) ==
    /\ pc[t] = "save"
    /\ root' = TRUE
    /\ files' = Opened(Path(t), t, Eval(op[t].c))
    /\ pc' = [pc EXCEPT ![t] = "write"]
    /\ UNCHANGED <<outer, workload, storeOf, subdirs, lock, op, listing, ret, calls,
                   printed, ops, faulted, cleared>>

\* np.save(file_cache_path, result): the open
SaveOpen(t) ==
    /\ pc[t] = "save"
    /\ IF root
       THEN /\ files' = Opened(Path(t), t, Eval(op[t].c))
            /\ ret' = ret
            /\ pc' = [pc EXCEPT ![t] = "write"]
       ELSE /\ files' = files
            /\ ret' = [ret EXCEPT ![t] = CacheOpError("FileNotFoundError")]
            /\ pc' = [pc EXCEPT ![t] = "exit"]
    /\ UNCHANGED <<outer, workload, storeOf, root, subdirs, lock, op, listing, calls,
                   printed, ops, faulted, cleared>>

\* the file as thread t's write of v leaves it when the write ends with
\* `done` (all of it written) and the directory still names the file t opened
Written(n, t, v, done) ==
    LET e == files[n]
        w == e.writers \ {t}
    IN IF done /\ e.last = t /\ ~e.raced
       THEN Put(n, Entry(v, TRUE, w, e.last, FALSE))
       ELSE Put(n, Entry(e.data, e.full /\ ~e.raced /\ done, w, e.last, e.raced))

\* what a file holds after writers of different data overlapped on it and
\* np.load still decodes it, when it is neither writer's array
Garbled == [shape |-> <<0>>, data |-> <<>>]

\* The files as thread t's write of v may leave them. Where writers of
\* different data had the file open together, what it holds depends on how
\* their writes interleaved: either array, or a mixture that may or may not
\* decode.
WriteOutcomes(n, t, v, done) ==
    LET e == files[n]
    IN IF e.raced
       THEN {Put(n, Entry(d, f, e.writers \ {t}, e.last, TRUE)) :
                d \in {v, e.data, Garbled}, f \in BOOLEAN}
       ELSE {Written(n, t, v, done)}

HasOpen(n, t) == n \in DOMAIN files /\ t \in files[n].writers

\* np.save(file_cache_path, result): the write and the close; return result
SaveWrite(t) ==
    /\ pc[t] = "write"
    /\ IF HasOpen(Path(t), t)
       THEN \E f \in WriteOutcomes(Path(t), t, Eval(op[t].c), TRUE) : files' = f
       ELSE files' = files
    /\ ret' = [ret EXCEPT ![t] = RetValue(Eval(op[t].c))]
    /\ pc' = [pc EXCEPT ![t] = "exit"]
    /\ UNCHANGED <<outer, workload, storeOf, root, subdirs, lock, op, listing, calls,
                   printed, ops, faulted, cleared>>

\* np.save fails part-way (the disk is full): the file stays as far as written
SaveWriteFails(t) ==
    /\ pc[t] = "write"
    /\ IF HasOpen(Path(t), t)
       THEN \E f \in WriteOutcomes(Path(t), t, Eval(op[t].c), FALSE) : files' = f
       ELSE files' = files
    /\ ret' = [ret EXCEPT ![t] = CacheOpError("OSError")]
    /\ pc' = [pc EXCEPT ![t] = "exit"]
    /\ faulted' = TRUE
    /\ UNCHANGED <<outer, workload, storeOf, root, subdirs, lock, op, listing, calls,
                   printed, ops, cleared>>

\* an exit that keeps the lock when the operation raises
ExitKeepsLockOnError(t) ==
    /\ pc[t] = "exit"
    /\ lock' = IF ret[t].kind = "error" THEN lock
               ELSE [lock EXCEPT ![storeOf[t]] = NoThread]
    /\ pc' = [pc EXCEPT ![t] = "idle"]
    /\ UNCHANGED <<outer, workload, storeOf, root, subdirs, files, op, listing, ret, calls,
                   printed, ops, faulted, cleared>>

\* leaving the with block releases the lock; then return, or raise. An
\* operation run by a wrapped function returns into that function, which ends
\* with the operation's result: the outer call goes on to its save, or to its
\* except clause when the operation raised.
Exit(t) ==
    /\ pc[t] = "exit"
    /\ lock' = [lock EXCEPT ![storeOf[t]] = NoThread]
    /\ IF outer[t] = NoOp
       THEN /\ pc' = [pc EXCEPT ![t] = "idle"]
            /\ UNCHANGED <<op, ret, outer>>
       ELSE /\ op' = [op EXCEPT ![t] = outer[t]]
            /\ outer' = [outer EXCEPT ![t] = NoOp]
            /\ ret' = [ret EXCEPT ![t] = IF ret[t].kind = "error"
                                         THEN CacheOpError("RuntimeError")
                                         ELSE NoRet]
            /\ pc' = [pc EXCEPT ![t] = IF ret[t].kind = "error" THEN "exit" ELSE "save"]
    /\ UNCHANGED <<workload, storeOf, root, subdirs, files, listing, calls,
                   printed, ops, faulted, cleared>>

\* ------------------------------------------------------------ clear_cache
\* cache.clear_cache(remove_dir)
StartClear(t, rd) ==
    /\ pc[t] = "idle"
    /\ ops < MaxOps
    /\ ops' = ops + 1
    /\ op' = [op EXCEPT ![t] = ClearOp(rd)]
    /\ ret' = [ret EXCEPT ![t] = NoRet]
    /\ pc' = [pc EXCEPT ![t] = "acquire"]
    /\ cleared' = TRUE
    /\ UNCHANGED <<outer, workload, storeOf, root, subdirs, files, lock, listing, calls,
                   printed, faulted>>

\* for file_name in os.listdir(self.cache_path):
ListDir(t) ==
    /\ pc[t] = "listdir"
    /\ IF root
       THEN /\ listing' = [listing EXCEPT ![t] = DOMAIN files \cup subdirs]
            /\ ret' = ret
            /\ pc' = [pc EXCEPT ![t] = "remove"]
       ELSE /\ listing' = listing
            /\ ret' = [ret EXCEPT ![t] = ClearError("FileNotFoundError")]
            /\ pc' = [pc EXCEPT ![t] = "exit"]
    /\ UNCHANGED <<outer, workload, storeOf, root, subdirs, files, lock, op, calls,
                   printed, ops, faulted, cleared>>

\* a turn of the loop that deletes nothing
RemoveSkips(t, n) ==
    /\ pc[t] = "remove"
    /\ n \in listing[t]
    /\ listing' = [listing EXCEPT ![t] = @ \ {n}]
    /\ UNCHANGED <<outer, workload, storeOf, root, subdirs, files, lock, pc, op, ret, calls,
                   printed, ops, faulted, cleared>>

\* one turn of the loop: if os.path.isfile(file_path): os.remove(file_path)
Remove(t, n) ==
    /\ pc[t] = "remove"
    /\ n \in listing[t]
    /\ listing' = [listing EXCEPT ![t] = @ \ {n}]
    /\ files' = IF IsFile(n) THEN Unlink(n) ELSE files
    /\ UNCHANGED <<outer, workload, storeOf, root, subdirs, lock, pc, op, ret, calls,
                   printed, ops, faulted, cleared>>

\* a failed os.remove that ends the loop and the clear
RemoveFailsAborts(t, n) ==
    /\ pc[t] = "remove"
    /\ n \in listing[t]
    /\ IsFile(n)
    /\ listing' = [listing EXCEPT ![t] = {}]
    /\ pc' = [pc EXCEPT ![t] = "exit"]
    /\ ret' = [ret EXCEPT ![t] = ClearError("PermissionError")]
    /\ faulted' = TRUE
    /\ UNCHANGED <<outer, workload, storeOf, root, subdirs, files, lock, op,
                   calls, printed, ops, cleared>>

\* one turn of the loop in which os.remove raises: the error is printed and
\* the loop goes on
RemoveFails(t, n) ==
    /\ pc[t] = "remove"
    /\ n \in listing[t]
    /\ IsFile(n)
    /\ listing' = [listing EXCEPT ![t] = @ \ {n}]
    /\ printed' = printed \cup {n}
    /\ faulted' = TRUE
    /\ UNCHANGED <<outer, workload, storeOf, root, subdirs, files, lock, pc, op, ret,
                   calls, ops, cleared>>

\* a removal that takes the directory with whatever is left in it
RmdirOkNonEmpty == root

\* os.rmdir(self.cache_path)
RmdirOk == root /\ DOMAIN files = {} /\ subdirs = {}

\* the end of the loop with remove_dir ignored
EndClearNoRmdir(t) ==
    /\ pc[t] = "remove"
    /\ listing[t] = {}
    /\ ret' = [ret EXCEPT ![t] = RetNone]
    /\ pc' = [pc EXCEPT ![t] = "exit"]
    /\ UNCHANGED <<outer, workload, storeOf, root, subdirs, files, lock, op, listing, calls,
                   printed, ops, faulted, cleared>>

\* after the loop: if remove_dir: os.rmdir(self.cache_path)
EndClear(t) ==
    /\ pc[t] = "remove"
    /\ listing[t] = {}
    /\ IF ~op[t].remove_dir
       THEN /\ root' = root
            /\ ret' = [ret EXCEPT ![t] = RetNone]
       ELSE IF RmdirOk
       THEN /\ root' = FALSE
            /\ ret' = [ret EXCEPT ![t] = RetNone]
       ELSE /\ root' = root
            /\ ret' = [ret EXCEPT ![t] =
                          ClearError(IF root THEN "OSError" ELSE "FileNotFoundError")]
    /\ pc' = [pc EXCEPT ![t] = "exit"]
    /\ UNCHANGED <<outer, workload, storeOf, subdirs, files, lock, op, listing, calls,
                   printed, ops, faulted, cleared>>

\* -------------------------------------------------------------------- Next
Next ==
    \E t \in Threads :
        \/ \E c \in workload : StartCall(t, c)
        \/ \E rd \in BOOLEAN : StartClear(t, rd)
        \/ Acquire(t)
        \/ Check(t)
        \/ Load(t)
        \/ Compute(t)
        \/ SaveOpen(t)
        \/ SaveWrite(t)
        \/ SaveWriteFails(t)
        \/ Exit(t)
        \/ ListDir(t)
        \/ \E n \in listing[t] : Remove(t, n)
        \/ \E n \in listing[t] : RemoveFails(t, n)
        \/ EndClear(t)

\* threads of one process on one store instance
Spec == Init /\ [][Next]_vars

\* one store instance, called with the two large arrays
InitBig ==
    /\ workload = {CountZeros, CountOne}
    /\ InitStore
    /\ storeOf = [t \in Threads |-> 1]

SpecBig == InitBig /\ [][Next]_vars

\* processes, each with its own store instance, on one cache_path
SpecMP == InitMP /\ [][Next]_vars

\* a step of thread t inside an operation, once it has the lock
Proceed(t) ==
    \/ Check(t) \/ Load(t) \/ Compute(t)
    \/ SaveOpen(t) \/ SaveWrite(t) \/ SaveWriteFails(t)
    \/ Exit(t) \/ ListDir(t)
    \/ \E n \in listing[t] : Remove(t, n) \/ RemoveFails(t, n)
    \/ EndClear(t)

\* a thread inside an operation keeps running, and a thread that awaits a
\* lock that is free again and again gets it
Fairness == \A t \in Threads : WF_vars(Proceed(t)) /\ SF_vars(Acquire(t))

\* threads of one process on one store instance, fairly scheduled
SpecFair == Init /\ [][Next]_vars /\ Fairness

\* one store instance whose cached functions call into the store
InitNested ==
    /\ workload \in {{Nested2, Sample2}, {Clearing2, Sample2}}
    /\ InitStore
    /\ storeOf = [t \in Threads |-> 1]

SpecNested == InitNested /\ [][Next]_vars

\* one store instance per thread on the same cache_path, each wrapping its own
\* function named sample_func
InitShared ==
    /\ workload = {Sample2, OtherSample2}
    /\ InitStore
    /\ storeOf = [t \in Threads |-> t]

SpecShared == InitShared /\ [][Next]_vars

\* ------------------------------------------------------------------ claims
Returned(t) == pc[t] = "idle" /\ ret[t].kind # "none"
ReturnedFrom(t, c) == Returned(t) /\ op[t] = CallOp(c)
Persisted(c) ==
    /\ Decodable(FileCachePath(c))
    /\ files[FileCachePath(c)].data = Eval(c)

\* C1 (hit equivalence): on one store, with no clear and no filesystem
\* failure, a wrapped function that returns is invoked at most once per
\* (f, a, kw); once a call with (f, a, kw) has returned, the function has run
\* exactly once for it, its result is persisted under the derived key, and the
\* call returned a value equal to f(*a, **kw).
HitEquivalence ==
    (~faulted /\ ~cleared) =>
        \A c \in workload :
            ~Raises(c) =>
                /\ calls[c] <= 1
                /\ \A t \in Threads :
                       ReturnedFrom(t, c) =>
                           /\ ret[t] = RetValue(Eval(c))
                           /\ calls[c] = 1
                           /\ Persisted(c)

\* C1 witness: two calls with the same (f, a, kw) have returned, the second a hit
HitEquivalenceWitness ==
    /\ ~faulted /\ ~cleared
    /\ \E c \in workload :
           /\ calls[c] = 1
           /\ \A t \in Threads : ReturnedFrom(t, c) /\ ret[t] = RetValue(Eval(c))

\* C2 (concurrent safety across threads): when every thread of one store has
\* called the same (f, a, kw) and returned, with no clear and no filesystem
\* failure, the root holds the entry file of that key, complete and decodable
\* to f(*a, **kw) (and no other file when no other call was made), and every
\* caller received a value equal to f(*a, **kw).
ConcurrentSafety ==
    (~faulted /\ ~cleared) =>
        \A c \in workload :
            (~Raises(c) /\ \A t \in Threads : ReturnedFrom(t, c)) =>
                /\ Persisted(c)
                /\ \A t \in Threads : ret[t] = RetValue(Eval(c))
                /\ (\A d \in workload \ {c} : calls[d] = 0) =>
                       DOMAIN files = {FileCachePath(c)}

\* C2 witness: all threads called the one call of the workload and returned
ConcurrentSafetyWitness ==
    /\ ~faulted /\ ~cleared
    /\ workload = {SampleDflt}
    /\ \A t \in Threads : ReturnedFrom(t, SampleDflt)
    /\ DOMAIN files = {FileCachePath(SampleDflt)}

\* C3 (wrapped-function errors propagate unchanged): a call whose wrapped
\* function raised returns to its caller that same error.
WrappedErrorUnchanged ==
    \A t \in Threads :
        (/\ Returned(t)
         /\ op[t].kind = "call"
         /\ Raises(op[t].c)
         /\ ret[t].kind = "error"
         /\ ret[t].cause = RaisedError(op[t].c)) =>
            ret[t].err = RaisedError(op[t].c)

\* C4 (across processes): with no filesystem failure, a process that found the
\* entry file to exist and goes on to decode it finds it wholly written.
NoPartialFileObserved ==
    ~faulted =>
        \A t \in Threads :
            (pc[t] = "load" /\ PathExists(Path(t))) => files[Path(t)].full

\* thread t stands at the end of a clear_cache(rd) that raised nothing
ClearSucceeded(t, rd) == pc[t] = "exit" /\ op[t] = ClearOp(rd) /\ ret[t] = RetNone

\* C5 as stated (clear without removal): when clear(remove_root=false)
\* returns without error the root exists and contains no entries.
ClearLeavesRootEmpty ==
    \A t \in Threads :
        ClearSucceeded(t, FALSE) => (root /\ DOMAIN files = {} /\ subdirs = {})

\* C5 as amended: when clear(remove_root=false) returns without error on a
\* store used by one process, the root exists and every regular file left in
\* it is one whose deletion failed and was reported; subdirectories stay.
ClearLeavesOnlyUndeletable ==
    \A t \in Threads :
        ClearSucceeded(t, FALSE) => (root /\ DOMAIN files \subseteq printed)

\* C5 witness: a clear without removal has emptied a root that held an entry
ClearLeavesOnlyUndeletableWitness ==
    \E t \in Threads :
        /\ ClearSucceeded(t, FALSE)
        /\ ~faulted
        /\ \E c \in workload : calls[c] > 0 /\ ~Raises(c)
        /\ \A u \in Threads \ {t} : ReturnedFrom(u, op[u].c) /\ ret[u].kind = "value"
        /\ DOMAIN files = {}

\* C6 (clear with removal): when clear(remove_root=true) returns without
\* error on a root that holds only entry files written by cached calls, the
\* root directory no longer exists, and no entry is left.
ClearRemovesRoot ==
    \A t \in Threads :
        (ClearSucceeded(t, TRUE) /\ subdirs = {}) => (~root /\ DOMAIN files = {})

\* C6 witness: a clear with removal has removed a root that held an entry
ClearRemovesRootWitness ==
    \E t \in Threads :
        /\ ClearSucceeded(t, TRUE)
        /\ subdirs = {}
        /\ ~faulted
        /\ \A u \in Threads \ {t} : ReturnedFrom(u, op[u].c) /\ ret[u].kind = "value"
        /\ ~root

\* thread t is inside the with block of a call whose wrapped function raises
InFailingCall(t) == Holds(t) /\ op[t].kind = "call" /\ Raises(op[t].c)

\* C7 (no persistence on compute failure): from the moment a call whose
\* wrapped function raises holds the lock until it returns, no step changes
\* the root or any file under it, and at the end of the call there is no file
\* for its key, so the next call with that key misses again.
NoPersistenceOnFailure ==
    [][\A t \in Threads :
          InFailingCall(t) =>
              /\ files' = files /\ root' = root /\ subdirs' = subdirs
              /\ (pc'[t] = "exit" => ~PathExists(Path(t))')]_vars

\* C7 witness: the wrapped function has raised for the same key in two calls,
\* and the second of them ends with no file for the key
NoPersistenceOnFailureWitness ==
    \E t \in Threads :
        /\ InFailingCall(t)
        /\ pc[t] = "exit"
        /\ calls[op[t].c] = 2
        /\ ~PathExists(Path(t))

\* thread t found its entry file to exist and np.load cannot decode it
ReadFails(t) == pc[t] = "load" /\ PathExists(Path(t)) /\ ~Decodable(Path(t))

\* C8 (a read failure is never a miss): a call whose entry file exists and
\* cannot be decoded ends with the cache error that carries the decoding
\* error; the wrapped function is not invoked and no file is changed.
ReadFailureIsNotMiss ==
    [][\A t \in Threads :
          /\ ReadFails(t) =>
                 /\ calls' = calls /\ files' = files
                 /\ pc'[t] \in {"load", "exit"}
                 /\ pc'[t] = "exit" => ret'[t] = CacheOpError("ValueError")
          /\ (pc[t] = "exit" /\ ret[t] = CacheOpError("ValueError")) =>
                 (calls' = calls /\ files' = files)]_vars

\* C8 witness: a call has ended with the decoding error; the partial file is
\* still there
ReadFailureIsNotMissWitness ==
    \E t \in Threads :
        /\ pc[t] = "exit"
        /\ op[t].kind = "call"
        /\ ret[t] = CacheOpError("ValueError")
        /\ PathExists(Path(t))
        /\ ~files[Path(t)].full
        /\ calls[op[t].c] = 1

\* every file but n is in the next state what it is now
OthersUnchanged(n) ==
    /\ DOMAIN files' \ {n} = DOMAIN files \ {n}
    /\ \A m \in DOMAIN files \ {n} : files'[m] = files[m]

\* the calls made so far whose wrapped function returns
ComputedCalls == {c \in workload : calls[c] > 0 /\ ~Raises(c)}

\* C9 (directory effect of a call), on one store: np.save's open adds the
\* file named by the call's key, which was not there, and its write completes
\* that file with f(*a, **kw), both leaving every other file as it is; no
\* other step of a call changes any file (a hit changes none); a complete
\* entry changes only by a clear deleting it; and with no clear and no
\* filesystem failure, once all calls have returned the root holds exactly
\* one file per distinct key called.
DirectoryEffect ==
    /\ []((~faulted /\ ~cleared /\ \A t \in Threads : pc[t] = "idle") =>
             /\ DOMAIN files = {FileCachePath(c) : c \in ComputedCalls}
             /\ Cardinality(DOMAIN files) = Cardinality(ComputedCalls))
    /\ [][/\ \A t \in Threads :
               /\ (Holds(t) /\ op[t].kind = "call" /\ pc[t] \notin {"save", "write"}) =>
                      files' = files
               /\ (pc[t] = "save" /\ pc'[t] = "write") =>
                      /\ Path(t) \notin DOMAIN files
                      /\ Path(t) \in DOMAIN files'
                      /\ OthersUnchanged(Path(t))
               /\ (pc[t] = "write" /\ pc'[t] = "exit" /\ ret'[t].kind = "value") =>
                      /\ Path(t) \in DOMAIN files'
                      /\ files'[Path(t)].full
                      /\ files'[Path(t)].data = Eval(op[t].c)
                      /\ OthersUnchanged(Path(t))
         /\ \A n \in DOMAIN files :
               files[n].full =>
                   \/ n \in DOMAIN files' /\ files'[n] = files[n]
                   \/ n \notin DOMAIN files' /\ \E t \in Threads : Holds(t) /\ pc[t] = "remove"]_vars

\* C9 witness: three calls with two distinct keys have returned and the root
\* holds two files
DirectoryEffectWitness ==
    /\ ~faulted /\ ~cleared
    /\ ops = 3
    /\ \A t \in Threads : Returned(t) /\ ret[t].kind = "value"
    /\ Cardinality(ComputedCalls) = 2
    /\ \A c \in workload : calls[c] = 1
    /\ Cardinality(DOMAIN files) = 2

\* calls c and d pass the same keyword arguments in a different order
KeywordsReordered(c, d) ==
    /\ c.func = d.func /\ c.args = d.args
    /\ {c.kwargs[i] : i \in 1..Len(c.kwargs)} = {d.kwargs[i] : i \in 1..Len(d.kwargs)}
    /\ c.kwargs # d.kwargs

\* C10 (keyword order is part of the key): two calls of one function with
\* the same positional arguments and the same keyword arguments in a
\* different order have different canonical strings and different keys; with
\* no clear and no filesystem failure, when both have returned the function
\* has run for each of them and the root holds a file for each.
KeywordOrderInKey ==
    \A c \in workload : \A d \in workload :
        KeywordsReordered(c, d) =>
            /\ InputStr(c) # InputStr(d)
            /\ FileCachePath(c) # FileCachePath(d)
            /\ (/\ ~faulted /\ ~cleared
                /\ \E t \in Threads : ReturnedFrom(t, c)
                /\ \E u \in Threads : ReturnedFrom(u, d)) =>
                   /\ Eval(c) = Eval(d)
                   /\ calls[c] = 1 /\ calls[d] = 1
                   /\ Persisted(c) /\ Persisted(d)
                   /\ Cardinality(DOMAIN files) = 2

\* C10 witness: pair_func(a=1, b=2) and pair_func(b=2, a=1) have both returned
KeywordOrderInKeyWitness ==
    /\ ~faulted /\ ~cleared
    /\ KeywordsReordered(PairAB, PairBA)
    /\ \E t \in Threads : ReturnedFrom(t, PairAB)
    /\ \E u \in Threads : ReturnedFrom(u, PairBA)
    /\ calls[PairAB] = 1 /\ calls[PairBA] = 1
    /\ Cardinality(DOMAIN files) = 2

\* calls c and d pass one 1-d array each, of the same shape, and the arrays
\* differ in one element
DifferInOneElement(c, d) ==
    /\ c.func = d.func /\ c.kwargs = d.kwargs
    /\ Len(c.args) = 1 /\ Len(d.args) = 1
    /\ ~IsScalar(c.args[1]) /\ c.args[1].shape = d.args[1].shape
    /\ Cardinality({i \in 1..Len(c.args[1].data) : c.args[1].data[i] # d.args[1].data[i]}) = 1

\* C11 (array arguments are keyed by shape and contents): two calls whose
\* array arguments differ in one element derive different keys, so when both
\* have returned, with no clear and no filesystem failure, each has returned
\* its own f(*a, **kw) and the function has run for each.
ArrayKeyedByContents ==
    \A c \in workload : \A d \in workload :
        (/\ DifferInOneElement(c, d)
         /\ ~faulted /\ ~cleared
         /\ \E t \in Threads : ReturnedFrom(t, c)
         /\ \E u \in Threads : ReturnedFrom(u, d)) =>
            /\ FileCachePath(c) # FileCachePath(d)
            /\ \A t \in Threads : ReturnedFrom(t, c) => ret[t] = RetValue(Eval(c))
            /\ calls[c] = 1 /\ calls[d] = 1

\* the places inside the with block of _compute_func_cached and clear_cache
CriticalPcs == {"check", "load", "compute", "save", "write", "exit", "listdir", "remove"}
InCritical(t) == pc[t] \in CriticalPcs

\* the step from this state to the next is one of thread t
StepOf(t) == pc'[t] # pc[t] \/ listing'[t] # listing[t]

\* C12 (mutation only under the lock), on one store instance: at most one
\* thread is inside a with block and it holds the lock; a file found by the
\* existence check is still there at the load and a file not found is still
\* absent at the save; every step that changes a file or the root is a step
\* of the thread holding the lock; and no file is deleted while a call is
\* inside its with block.
MutationOnlyUnderLock ==
    /\ [](/\ Cardinality({t \in Threads : InCritical(t)}) <= 1
          /\ \A t \in Threads :
                /\ InCritical(t) => Holds(t)
                /\ pc[t] = "load" => PathExists(Path(t))
                /\ pc[t] \in {"compute", "save"} => ~PathExists(Path(t)))
    /\ [][/\ (files' # files \/ root' # root) =>
                \E t \in Threads :
                    Holds(t) /\ StepOf(t) /\ pc[t] \in {"save", "write", "remove"}
          /\ (\E t \in Threads : InCritical(t) /\ op[t].kind = "call") =>
                DOMAIN files \subseteq DOMAIN files']_vars

\* C12 witness: a call is writing its entry while a clear waits for the lock
MutationOnlyUnderLockWitness ==
    \E t \in Threads : \E u \in Threads :
        /\ pc[t] = "write" /\ Holds(t)
        /\ pc[u] = "acquire" /\ op[u].kind = "clear"

\* the threads on the miss path of call c
Missing(c) == {t \in Threads : op[t] = CallOp(c) /\ pc[t] \in {"compute", "save", "write"}}

\* C13 (single computation per key under contention), on one store instance
\* with no clear and no filesystem failure, for a wrapped function that
\* returns: at most one thread is ever on the miss path of a key, and only
\* while the key has no complete entry; the function runs once per key; a
\* thread that finds the file present finds it complete, and its load returns
\* the entry without invoking the function.
SingleComputationPerKey ==
    /\ []((~faulted /\ ~cleared) =>
             \A c \in workload :
                 ~Raises(c) =>
                     /\ Cardinality(Missing(c)) <= 1
                     /\ Missing(c) # {} => ~Persisted(c)
                     /\ calls[c] = IF Persisted(c) \/ \E t \in Missing(c) : pc[t] # "compute"
                                   THEN 1 ELSE 0
                     /\ \A t \in Threads :
                            (op[t] = CallOp(c) /\ pc[t] = "load") => Persisted(c))
    /\ [][\A t \in Threads :
              (~faulted /\ ~cleared /\ pc[t] = "load" /\ pc'[t] = "exit") =>
                  (ret'[t] = RetValue(Eval(op[t].c)) /\ calls' = calls)]_vars

\* C13 witness: one thread has computed the key and returned, another called
\* with the same key while the first was computing and now loads the entry
SingleComputationPerKeyWitness ==
    \E t \in Threads : \E u \in Threads :
        /\ ~faulted /\ ~cleared
        /\ ReturnedFrom(t, op[t].c) /\ ret[t].kind = "value"
        /\ op[u] = op[t] /\ pc[u] = "load"
        /\ calls[op[t].c] = 1
        /\ ops = 2

\* C14 (no partially written entry is observed within one store instance):
\* whenever no thread holds the lock, every file under the root is wholly
\* written, also after a write that failed part-way.
NoPartialEntryAtRest ==
    (\A t \in Threads : ~Holds(t)) => \A n \in DOMAIN files : files[n].full

\* thread t stands at the end of a clear_cache whose listing succeeded
ClearLoopDone(t) ==
    pc[t] = "exit" /\ op[t].kind = "clear" /\ ret[t].cause # "FileNotFoundError"

\* C15 (best-effort bulk delete), on one store instance: a failed deletion is
\* reported and the loop goes on with the names left; at the end of the loop
\* every file still under the root is one whose deletion failed, and without
\* remove_root the clear returns without error.
BestEffortDelete ==
    /\ [](\A t \in Threads :
             /\ (pc[t] = "remove" /\ Holds(t)) =>
                    DOMAIN files \subseteq (listing[t] \cup printed)
             /\ ClearLoopDone(t) =>
                    /\ DOMAIN files \subseteq printed
                    /\ ~op[t].remove_dir => ret[t] = RetNone)
    /\ [][\A t \in Threads :
              (pc[t] = "remove" /\ printed' # printed) =>
                  /\ pc'[t] = "remove" /\ ret'[t] = ret[t]
                  /\ files' = files
                  /\ listing'[t] \subseteq listing[t] /\ listing'[t] # listing[t]]_vars

\* C15 witness: of two entries the clear could delete one; it has returned
\* without error and the other entry is still there
BestEffortDeleteWitness ==
    \E t \in Threads :
        /\ ClearSucceeded(t, FALSE)
        /\ \A c \in workload : calls[c] = 1
        /\ Cardinality(workload) = 2
        /\ Cardinality(DOMAIN files) = 1
        /\ DOMAIN files \subseteq printed

\* C16 (removal of a non-empty root fails loudly), on one store instance:
\* when the loop of clear(remove_root=true) ends with a subdirectory or an
\* undeleted file in the root, the clear ends with the cache error for the
\* failed rmdir, the root and what is left in it stay, every file left is one
\* whose deletion failed, and the lock is free once the clear has returned.
NonEmptyRootRemovalFails ==
    /\ [](\A t \in Threads : pc[t] = "idle" => ~Holds(t))
    /\ [][\A t \in Threads :
              (/\ pc[t] = "remove" /\ pc'[t] = "exit"
               /\ op[t].remove_dir
               /\ root /\ (DOMAIN files # {} \/ subdirs # {})) =>
                  /\ ret'[t] = ClearError("OSError")
                  /\ root' /\ files' = files /\ subdirs' = subdirs
                  /\ DOMAIN files \subseteq printed]_vars

\* C16 witness: a clear with removal has deleted the entry, failed on the
\* subdirectory and returned; the lock is free
NonEmptyRootRemovalFailsWitness ==
    \E t \in Threads :
        /\ pc[t] = "idle" /\ op[t] = ClearOp(TRUE)
        /\ ret[t] = ClearError("OSError")
        /\ root /\ subdirs # {} /\ DOMAIN files = {}
        /\ \E c \in workload : calls[c] > 0 /\ ~Raises(c)
        /\ ~faulted
        /\ lock[storeOf[t]] = NoThread

\* C19 (a torn-down store stays torn down), on one store instance: once the
\* root is gone nothing brings it back and nothing is under it; from then on
\* a call's existence check is a miss, the wrapped function is invoked, the
\* save fails with the cache error and creates no file, and a clear fails
\* with the cache error at the listing.
TornDownStaysTornDown ==
    /\ [](~root =>
             /\ DOMAIN files = {}
             /\ \A t \in Threads :
                    /\ (pc[t] = "exit" /\ op[t].kind = "call") => ret[t].kind = "error"
                    /\ (pc[t] = "exit" /\ op[t].kind = "clear") =>
                           \/ ret[t] = ClearError("FileNotFoundError")
                           \/ ret[t] = RetNone /\ op[t].remove_dir)
    /\ [][~root =>
             /\ ~root' /\ files' = files
             /\ \A t \in Threads :
                    StepOf(t) =>
                        /\ pc[t] = "check" => pc'[t] = "compute"
                        /\ pc[t] = "compute" =>
                               calls'[op[t].c] = calls[op[t].c] + 1
                        /\ pc[t] = "save" =>
                               /\ pc'[t] = "exit"
                               /\ ret'[t] = CacheOpError("FileNotFoundError")
                        /\ pc[t] = "listdir" =>
                               /\ pc'[t] = "exit"
                               /\ ret'[t] = ClearError("FileNotFoundError")]_vars

\* C19 witness: after the root was removed a call has invoked its function
\* and failed at the save, and a clear has failed before it
TornDownStaysTornDownWitness ==
    \E t \in Threads : \E u \in Threads :
        /\ ~root
        /\ pc[t] = "exit" /\ op[t].kind = "call"
        /\ calls[op[t].c] = 1
        /\ ret[t] = CacheOpError("FileNotFoundError")
        /\ pc[u] = "idle" /\ op[u].kind = "clear"
        /\ ret[u] = ClearError("FileNotFoundError")

\* C17 (lock release and progress), on one store instance with wrapped
\* functions that return or raise and do not use the store, under fair
\* scheduling: every way out of an operation frees the lock; a thread that
\* awaits the lock gets it; and every operation that was started returns or
\* raises.
LockReleaseAndProgress ==
    /\ [][\A t \in Threads :
              (pc[t] = "exit" /\ pc'[t] = "idle") => lock'[storeOf[t]] = NoThread]_vars
    /\ \A t \in Threads : (pc[t] = "acquire") ~> Holds(t)
    /\ \A t \in Threads : (pc[t] # "idle") ~> (pc[t] = "idle" /\ ret[t].kind # "none")

\* C17 witness: one operation has ended with an error, another thread's call
\* has returned its value after it, and the lock is free
LockReleaseAndProgressWitness ==
    \E t \in Threads : \E u \in Threads :
        /\ t # u
        /\ Returned(t) /\ ret[t].kind = "error"
        /\ Returned(u) /\ ret[u].kind = "value"
        /\ ops = MaxOps
        /\ \A s \in Stores : lock[s] = NoThread

\* thread t awaits, inside its wrapped function, the lock it holds itself
Stuck(t) == outer[t] # NoOp /\ pc[t] = "acquire" /\ Holds(t)

\* C18 (self-deadlock on re-entrancy), on one store instance: a wrapped
\* function that calls a cached function of the store or its clear awaits the
\* lock its own thread holds; from then on that thread stays there, so the
\* outer call never returns, and no thread that awaits the lock gets it.
SelfDeadlock ==
    /\ [](\A t \in Threads : outer[t] # NoOp => Stuck(t))
    /\ [][\A t \in Threads :
              Stuck(t) =>
                  /\ Stuck(t)'
                  /\ \A u \in Threads :
                         pc[u] = "acquire" => (pc'[u] = "acquire" /\ ret'[u] = ret[u])]_vars

\* C18 witness: one thread awaits its own lock inside its wrapped function
\* and another thread's call awaits the same lock
SelfDeadlockWitness ==
    \E t \in Threads : \E u \in Threads :
        /\ Stuck(t)
        /\ u # t /\ storeOf[u] = storeOf[t]
        /\ pc[u] = "acquire" /\ outer[u] = NoOp

\* calls of functions of one name with the same arguments
SameInput(c, d) == c.func.name = d.func.name /\ c.args = d.args /\ c.kwargs = d.kwargs

\* the entry of call d is under the root as d's function returned it
StoredBy(d) ==
    LET n == FileCachePath(d)
    IN /\ calls[d] > 0
       /\ PathExists(n)
       /\ files[n].full /\ files[n].writers = {} /\ ~files[n].raced
       /\ files[n].data = Eval(d)

\* C20 (the key depends on the function only through its name), on stores
\* that share one root: calls of two functions of one name with the same
\* arguments derive the same file; once one function's result is stored, the
\* other's call finds the file, and its load returns that result without
\* invoking its own function.
NameOnlyKey ==
    /\ [](\A c \in workload : \A d \in workload :
             SameInput(c, d) => FileCachePath(c) = FileCachePath(d))
    /\ [][\A t \in Threads : \A d \in workload :
              (/\ op[t].kind = "call" /\ d # op[t].c
               /\ SameInput(op[t].c, d)
               /\ StoredBy(d)
               /\ StepOf(t)) =>
                  /\ pc[t] = "check" => pc'[t] = "load"
                  /\ pc[t] = "load" =>
                         /\ pc'[t] = "exit"
                         /\ ret'[t] = RetValue(Eval(d))
                         /\ calls' = calls]_vars

\* C20 witness: a call has returned the result of the other function of the
\* same name, which differs from its own, and its own function never ran
NameOnlyKeyWitness ==
    \E t \in Threads : \E d \in workload :
        /\ Returned(t) /\ op[t].kind = "call"
        /\ d.func # op[t].c.func /\ SameInput(op[t].c, d)
        /\ calls[op[t].c] = 0 /\ calls[d] = 1
        /\ ret[t] = RetValue(Eval(d))
        /\ Eval(d) # Eval(op[t].c)
        /\ ~cleared /\ ~faulted

====
